---- MODULE Spec2Model ----
(***************************************************************************)
(* Model of src/src/lib.rs: the ngspice ASCII raw-file parser (parse,      *)
(* flush_values) and the CSV exporter (parse_and_get_csv).                 *)
(*                                                                         *)
(* Text is modelled as a sequence of tokens. A token is either one of the  *)
(* separator characters the code looks at (":", "\t", ",", " ") or a word  *)
(* that contains none of them; the text a sequence stands for is the       *)
(* concatenation of its tokens. The input is a sequence of lines, as       *)
(* produced by str::lines().                                               *)
(***************************************************************************)
EXTENDS Integers, Sequences, FiniteSets, TLC

\* Number of lines of an input text.
MaxLines == 7
\* Declared variables / points of the well-formed inputs.
MaxV == 2
MaxP == 2

----------------------------------------------------------------------------
(* String helpers: str::trim, str::split, [..].join("") *)

Whitespace == {" ", "\t"}

RECURSIVE TrimStart(_)
TrimStart(s) ==
    IF s # <<>> /\ Head(s) \in Whitespace THEN TrimStart(Tail(s)) ELSE s

RECURSIVE TrimEnd(_)
TrimEnd(s) ==
    IF s # <<>> /\ s[Len(s)] \in Whitespace
    THEN TrimEnd(SubSeq(s, 1, Len(s) - 1)) ELSE s

Trim(s) == TrimEnd(TrimStart(s))

RECURSIVE SplitAcc(_, _, _, _)
SplitAcc(s, sep, cur, acc) ==
    IF s = <<>> THEN Append(acc, cur)
    ELSE IF Head(s) = sep
         THEN SplitAcc(Tail(s), sep, <<>>, Append(acc, cur))
         ELSE SplitAcc(Tail(s), sep, Append(cur, Head(s)), acc)

\* str::split(sep).collect(): always at least one part
Split(s, sep) == SplitAcc(s, sep, <<>>, <<>>)

RECURSIVE JoinFrom(_, _)
\* parts[i..].join("") with 1-based i
JoinFrom(parts, i) ==
    IF i > Len(parts) THEN <<>> ELSE parts[i] \o JoinFrom(parts, i + 1)

----------------------------------------------------------------------------
(* Number parsing: str::parse::<usize>() and str::parse::<f64>() *)

UsizeTokens == {"0", "1", "2", "3"}
UsizeVal(t) == CASE t = "0" -> 0 [] t = "1" -> 1 [] t = "2" -> 2 [] t = "3" -> 3

\* [ok, val]: ok is FALSE for text that is not one unsigned decimal literal
ParseUsize(s) ==
    IF Len(s) = 1 /\ s[1] \in UsizeTokens
    THEN [ok |-> TRUE, val |-> UsizeVal(s[1])]
    ELSE [ok |-> FALSE, val |-> 0]

FloatTokens == {"0", "1", "2", "3", "4", "0.0", "1.0", "2.0", "-3", "-4"}
FloatVal(t) ==
    CASE t \in {"0", "0.0"} -> 0
      [] t \in {"1", "1.0"} -> 1
      [] t \in {"2", "2.0"} -> 2
      [] t = "3" -> 3
      [] t = "4" -> 4
      [] t = "-3" -> 0 - 3
      [] t = "-4" -> 0 - 4

\* [ok, val]: no trimming is done, text with blanks or commas is rejected
ParseFloat(s) ==
    IF Len(s) = 1 /\ s[1] \in FloatTokens
    THEN [ok |-> TRUE, val |-> FloatVal(s[1])]
    ELSE [ok |-> FALSE, val |-> 0]

----------------------------------------------------------------------------
(* Complex samples: (real.powi(2) + imaginary.powi(2)).sqrt() and          *)
(* (imaginary / real).atan(). Sample values are integral; an angle is      *)
(* kept as the quotient whose arctangent it is, <<n, d>> in lowest terms   *)
(* with d >= 0: <<1, 0>> is atan(+inf), <<-1, 0>> atan(-inf), <<0, 0>>     *)
(* atan(NaN), <<0, 1>> the angle 0.0 and <<0, -1>> the angle -0.0.         *)

Abs(x) == IF x < 0 THEN 0 - x ELSE x

RECURSIVE Gcd(_, _)
Gcd(a, b) == IF b = 0 THEN a ELSE Gcd(b, a % b)

\* square root of the perfect squares the sample values produce
Sqrt(n) == CHOOSE r \in 0..n : r * r = n

Magnitude(re, im) == Sqrt(re * re + im * im)

Phase(re, im) ==
    IF re = 0 THEN (IF im > 0 THEN <<1, 0>> ELSE IF im < 0 THEN <<0 - 1, 0>> ELSE <<0, 0>>)
    ELSE IF im = 0 THEN (IF re > 0 THEN <<0, 1>> ELSE <<0, 0 - 1>>)
    ELSE LET g == Gcd(Abs(im), Abs(re))
             sgn == IF (im < 0) = (re < 0) THEN 1 ELSE 0 - 1
         IN  <<sgn * (Abs(im) \div g), Abs(re) \div g>>

ZeroAngle == <<0, 1>>

\* the sample conversion of the Value arm; res is "Ok", "ParseFloat" or "Panic"
ParseSample(fl, num) ==
    IF fl = "Real"
    THEN LET r == ParseFloat(num)
         IN  IF r.ok THEN [res |-> "Ok", val |-> <<r.val, ZeroAngle>>]
             ELSE [res |-> "ParseFloat", val |-> <<0, ZeroAngle>>]
    ELSE LET pts == Split(num, ",")
             re  == ParseFloat(pts[1])
         IN  IF ~re.ok THEN [res |-> "ParseFloat", val |-> <<0, ZeroAngle>>]
             ELSE IF Len(pts) < 2 THEN [res |-> "Panic", val |-> <<0, ZeroAngle>>]
             ELSE LET im == ParseFloat(pts[2])
                  IN  IF ~im.ok THEN [res |-> "ParseFloat", val |-> <<0, ZeroAngle>>]
                      ELSE [res |-> "Ok",
                            val |-> <<Magnitude(re.val, im.val), Phase(re.val, im.val)>>]

----------------------------------------------------------------------------
(* Data model *)

Errors == {"ParseInt", "ParseFloat", "NoOfVarMismatch", "NoOfValMismatch", "UnknownFlag"}

None == [some |-> FALSE, vec |-> <<>>]
Some(v) == [some |-> TRUE, vec |-> v]

VarData(n, t, fl) ==
    [name |-> n, typee |-> t, values |-> <<>>,
     angles |-> IF fl = "Real" THEN None ELSE Some(<<>>)]

\* one iteration of the loop of flush_values: data[idx] receives val
PushVal(d, val, fl) ==
    [d EXCEPT !.values = Append(@, val[1]),
              !.angles = IF fl = "Complex" /\ @.some
                         THEN Some(Append(@.vec, val[2])) ELSE @]

\* a flush that only rejects a point with too few samples
flush_values_TooFewOnly(nv, temp, dat, fl) ==
    IF Len(temp) # 0
    THEN IF Len(temp) < nv
         THEN [res |-> "NoOfValMismatch", temp |-> temp, data |-> dat]
         ELSE LET pushed == [i \in 1..Len(dat) |->
                               IF i <= Len(temp) THEN PushVal(dat[i], temp[i], fl)
                               ELSE dat[i]]
              IN  IF nv > Len(dat)
                  THEN [res |-> "Panic", temp |-> temp, data |-> pushed]
                  ELSE [res |-> "Ok", temp |-> <<>>, data |-> pushed]
    ELSE [res |-> "Ok", temp |-> temp, data |-> dat]

\* a flush that only rejects a point with too many samples
flush_values_TooManyOnly(nv, temp, dat, fl) ==
    IF Len(temp) # 0
    THEN IF Len(temp) > nv
         THEN [res |-> "NoOfValMismatch", temp |-> temp, data |-> dat]
         ELSE LET pushed == [i \in 1..Len(dat) |->
                               IF i <= Len(temp) THEN PushVal(dat[i], temp[i], fl)
                               ELSE dat[i]]
              IN  IF Len(temp) > Len(dat)
                  THEN [res |-> "Panic", temp |-> temp, data |-> pushed]
                  ELSE [res |-> "Ok", temp |-> <<>>, data |-> pushed]
    ELSE [res |-> "Ok", temp |-> temp, data |-> dat]

\* a flush that hands the samples of a point to the series in reverse order
flush_values_Reversed(nv, temp, dat, fl) ==
    IF Len(temp) # 0
    THEN IF Len(temp) # nv
         THEN [res |-> "NoOfValMismatch", temp |-> temp, data |-> dat]
         ELSE LET pushed == [i \in 1..Len(dat) |->
                               IF i <= Len(temp)
                               THEN PushVal(dat[i], temp[Len(temp) + 1 - i], fl)
                               ELSE dat[i]]
              IN  IF Len(temp) > Len(dat)
                  THEN [res |-> "Panic", temp |-> temp, data |-> pushed]
                  ELSE [res |-> "Ok", temp |-> <<>>, data |-> pushed]
    ELSE [res |-> "Ok", temp |-> temp, data |-> dat]

(* flush_values: res is "Ok", "NoOfValMismatch" or "Panic" (data[idx] out  *)
(* of bounds, after the series that exist have received their sample).     *)
flush_values(nv, temp, dat, fl) ==
    IF Len(temp) # 0
    THEN IF Len(temp) # nv
         THEN [res |-> "NoOfValMismatch", temp |-> temp, data |-> dat]
         ELSE LET pushed == [i \in 1..Len(dat) |->
                               IF i <= Len(temp) THEN PushVal(dat[i], temp[i], fl)
                               ELSE dat[i]]
              IN  IF Len(temp) > Len(dat)
                  THEN [res |-> "Panic", temp |-> temp, data |-> pushed]
                  ELSE [res |-> "Ok", temp |-> <<>>, data |-> pushed]
    ELSE [res |-> "Ok", temp |-> temp, data |-> dat]

----------------------------------------------------------------------------
(* State of one call of parse / parse_and_get_csv *)

VARIABLES
    title, date, plotname, flags, no_of_variables, no_of_points, data,
    mode, variable_counter, temp_values,
    lin,        \* the line of the current loop iteration
    nread,      \* number of lines taken from the input so far
    file,       \* the input text when it is given in advance, else <<>>
    result,     \* "Running", "Ok" (a Plot is returned), an error kind or "Panic"
    csv         \* outcome of parse_and_get_csv: [status, text]

meta == <<title, date, plotname, flags, no_of_variables, no_of_points>>
pstate == <<data, mode, variable_counter, temp_values>>
vars == <<title, date, plotname, flags, no_of_variables, no_of_points, data,
          mode, variable_counter, temp_values, lin, nread, file, result, csv>>

NoCsv == [status |-> "None", text |-> <<>>]

InitParse ==
    /\ title = <<>> /\ date = <<>> /\ plotname = <<>>
    /\ flags = "Real"
    /\ no_of_variables = 0 /\ no_of_points = 0
    /\ data = <<>>
    /\ mode = "Meta"
    /\ variable_counter = 0
    /\ temp_values = <<>>
    /\ lin = <<>>
    /\ nread = 0
    /\ result = "Running"
    /\ csv = NoCsv

\* return Err(kind) or panic: the locals are dropped as they are
Fail(kind) == result' = kind /\ UNCHANGED <<meta, pstate>>

\* the match on the trimmed value of a Flags line
MatchFlags(s) ==
    CASE s = <<"complex">> -> "Complex"
      [] s = <<"real">> -> "Real"
      [] OTHER -> "Unknown"

\* a "Variables" arm that also restarts the count of variable lines
EnterVariable_Reset ==
    /\ mode' = "Variable"
    /\ variable_counter' = 0
    /\ UNCHANGED <<meta, data, temp_values, result>>

\* the "Variables" arm of the Meta match: only the mode is assigned
EnterVariable ==
    /\ mode' = "Variable"
    /\ UNCHANGED <<meta, data, variable_counter, temp_values, result>>

(* Modes::Meta arm *)
MetaLine(l) ==
    LET parts == Split(Trim(l), ":")
        key   == parts[1]
    IN  CASE key = <<"Title">> ->
               IF Len(parts) < 2 THEN Fail("Panic")
               ELSE /\ title' = Trim(parts[2])
                    /\ UNCHANGED <<date, plotname, flags, no_of_variables, no_of_points,
                                   pstate, result>>
          [] key = <<"Date">> ->
               /\ date' = Trim(JoinFrom(parts, 2))
               /\ UNCHANGED <<title, plotname, flags, no_of_variables, no_of_points,
                              pstate, result>>
          [] key = <<"Plotname">> ->
               IF Len(parts) < 2 THEN Fail("Panic")
               ELSE /\ plotname' = Trim(parts[2])
                    /\ UNCHANGED <<title, date, flags, no_of_variables, no_of_points,
                                   pstate, result>>
          [] key = <<"Flags">> ->
               IF Len(parts) < 2 THEN Fail("Panic")
               ELSE LET f == MatchFlags(Trim(parts[2]))
                    IN  IF f = "Unknown" THEN Fail("UnknownFlag")
                        ELSE /\ flags' = f
                             /\ UNCHANGED <<title, date, plotname, no_of_variables,
                                            no_of_points, pstate, result>>
          [] key = <<"No. Variables">> ->
               IF Len(parts) < 2 THEN Fail("Panic")
               ELSE LET n == ParseUsize(Trim(parts[2]))
                    IN  IF ~n.ok THEN Fail("ParseInt")
                        ELSE /\ no_of_variables' = n.val
                             /\ UNCHANGED <<title, date, plotname, flags, no_of_points,
                                            pstate, result>>
          [] key = <<"No. Points">> ->
               IF Len(parts) < 2 THEN Fail("Panic")
               ELSE LET n == ParseUsize(Trim(parts[2]))
                    IN  IF ~n.ok THEN Fail("ParseInt")
                        ELSE /\ no_of_points' = n.val
                             /\ UNCHANGED <<title, date, plotname, flags, no_of_variables,
                                            pstate, result>>
          [] key = <<"Variables">> -> EnterVariable
          [] key = <<"Values">> ->
               /\ mode' = "Value"
               /\ UNCHANGED <<meta, data, variable_counter, temp_values, result>>
          [] OTHER -> UNCHANGED <<meta, pstate, result>>

\* a Variable arm that compares the counter with the declared count before
\* it is incremented
VariableLine_CompareFirst(l) ==
    IF variable_counter = no_of_variables THEN Fail("NoOfVarMismatch")
    ELSE LET parts == Split(Trim(l), "\t")
         IN  IF Len(parts) < 3
             THEN /\ result' = "Panic"
                  /\ variable_counter' = variable_counter + 1
                  /\ UNCHANGED <<meta, mode, data, temp_values>>
             ELSE /\ variable_counter' = variable_counter + 1
                  /\ data' = Append(data, VarData(Trim(parts[2]), Trim(parts[3]), flags))
                  /\ UNCHANGED <<meta, mode, temp_values, result>>

\* a Variable arm that fails only when the counter is above the declared count
VariableLine_FailsAbove(l) ==
    IF variable_counter > no_of_variables THEN Fail("NoOfVarMismatch")
    ELSE LET parts == Split(Trim(l), "\t")
         IN  IF Len(parts) < 3
             THEN /\ result' = "Panic"
                  /\ variable_counter' = variable_counter + 1
                  /\ mode' = IF variable_counter + 1 = no_of_variables
                             THEN "Meta" ELSE mode
                  /\ UNCHANGED <<meta, data, temp_values>>
             ELSE /\ variable_counter' = variable_counter + 1
                  /\ mode' = IF variable_counter + 1 = no_of_variables
                             THEN "Meta" ELSE mode
                  /\ data' = Append(data, VarData(Trim(parts[2]), Trim(parts[3]), flags))
                  /\ UNCHANGED <<meta, temp_values, result>>

(* Modes::Variable arm *)
VariableLine(l) ==
    IF variable_counter = no_of_variables THEN Fail("NoOfVarMismatch")
    ELSE LET parts == Split(Trim(l), "\t")
         IN  IF Len(parts) < 3
             THEN /\ result' = "Panic"
                  /\ variable_counter' = variable_counter + 1
                  /\ mode' = IF variable_counter + 1 = no_of_variables
                             THEN "Meta" ELSE mode
                  /\ UNCHANGED <<meta, data, temp_values>>
             ELSE /\ variable_counter' = variable_counter + 1
                  /\ mode' = IF variable_counter + 1 = no_of_variables
                             THEN "Meta" ELSE mode
                  /\ data' = Append(data, VarData(Trim(parts[2]), Trim(parts[3]), flags))
                  /\ UNCHANGED <<meta, temp_values, result>>

(* Modes::Value arm *)
ValueLine(l) ==
    LET parts == Split(Trim(l), "\t")
        fl    == IF Len(parts) = 2
                 THEN flush_values(no_of_variables, temp_values, data, flags)
                 ELSE [res |-> "Ok", temp |-> temp_values, data |-> data]
        num   == IF Len(parts) = 2 THEN parts[2] ELSE parts[1]
        s     == ParseSample(flags, num)
    IN  IF fl.res # "Ok"
        THEN /\ result' = fl.res
             /\ data' = fl.data
             /\ UNCHANGED <<meta, mode, variable_counter, temp_values>>
        ELSE IF s.res # "Ok"
        THEN /\ result' = s.res
             /\ data' = fl.data
             /\ temp_values' = fl.temp
             /\ UNCHANGED <<meta, mode, variable_counter>>
        ELSE /\ data' = fl.data
             /\ temp_values' = Append(fl.temp, s.val)
             /\ UNCHANGED <<meta, mode, variable_counter, result>>

\* a loop body that hands blank lines to the arms like any other line
ParseLine_NoSkip(l) ==
    /\ lin' = l
    /\ CASE mode = "Meta" -> MetaLine(l)
         [] mode = "Variable" -> VariableLine(l)
         [] mode = "Value" -> ValueLine(l)

\* a loop body that recognises the section headers in every mode
ParseLine_HeadersAnywhere(l) ==
    /\ lin' = l
    /\ IF Len(Trim(l)) = 0 THEN UNCHANGED <<meta, pstate, result>>
       ELSE CASE mode = "Meta" -> MetaLine(l)
              [] mode = "Variable" -> VariableLine(l)
              [] mode = "Value" ->
                   IF Split(Trim(l), ":")[1] \in {<<"Variables">>, <<"Values">>}
                   THEN MetaLine(l) ELSE ValueLine(l)

(* body of the loop over file.lines() *)
ParseLine(l) ==
    /\ lin' = l
    /\ IF Len(Trim(l)) = 0 THEN UNCHANGED <<meta, pstate, result>>
       ELSE CASE mode = "Meta" -> MetaLine(l)
              [] mode = "Variable" -> VariableLine(l)
              [] mode = "Value" -> ValueLine(l)

\* an end of parse that builds the Plot without the last flush
Finish_NoFlush ==
    /\ result' = "Ok"
    /\ UNCHANGED <<meta, pstate, lin>>

(* after the loop: the last flush and the construction of the Plot *)
Finish ==
    LET fl == flush_values(no_of_variables, temp_values, data, flags)
    IN  /\ result' = fl.res
        /\ data' = fl.data
        /\ temp_values' = fl.temp
        /\ UNCHANGED <<meta, mode, variable_counter, lin>>

----------------------------------------------------------------------------
(* parse_and_get_csv *)

\* f64::to_string of the integral values the samples produce
FloatToString(v) == ToString(v)

\* f64::to_degrees followed by to_string
DegreesToString(a) ==
    CASE a = <<0, 1>>      -> "0"
      [] a = <<0, 0 - 1>>  -> "-0"
      [] a = <<1, 0>>      -> "90"
      [] a = <<0 - 1, 0>>  -> "-90"
      [] a = <<0, 0>>      -> "NaN"
      [] a = <<4, 3>>      -> "53.13010235415598"
      [] a = <<0 - 4, 3>>  -> "-53.13010235415598"
      [] a = <<3, 4>>      -> "36.86989764584402"
      [] a = <<0 - 3, 4>>  -> "-36.86989764584402"

RECURSIVE HeaderFrom(_, _, _)
\* the loop over plot.data building the header row
HeaderFrom(dat, fl, k) ==
    IF k > Len(dat) THEN <<>>
    ELSE dat[k].name \o <<" - ">> \o dat[k].typee \o <<",">>
         \o (IF fl = "Complex" THEN dat[k].typee \o <<"(phase)", ",">> ELSE <<>>)
         \o HeaderFrom(dat, fl, k + 1)

\* ret.remove(ret.len() - 1): a header that is not empty ends with the
\* one-character token ","
RemoveLast(ret) == SubSeq(ret, 1, Len(ret) - 1)

\* an index of the row loops is out of bounds: plot.data[j], or values[i] and
\* angles[i], which a Complex row reads only for a series that has angles
RowFaults(dat, fl, nv, np) ==
    \E i \in 1..np : \E j \in 1..nv :
        \/ j > Len(dat)
        \/ /\ j <= Len(dat)
           /\ \/ fl = "Real" /\ i > Len(dat[j].values)
              \/ /\ fl = "Complex"
                 /\ dat[j].angles.some
                 /\ \/ i > Len(dat[j].values)
                    \/ i > Len(dat[j].angles.vec)

Cell(d, fl, i) ==
    IF fl = "Real" THEN <<FloatToString(d.values[i])>>
    ELSE IF d.angles.some
         THEN <<FloatToString(d.values[i]), ",", DegreesToString(d.angles.vec[i]), "Â°">>
         ELSE <<>>

RECURSIVE RowFrom_TrailingComma(_, _, _, _, _)
\* a row loop that ends every group with a comma and the row with a newline
RowFrom_TrailingComma(dat, fl, nv, i, j) ==
    IF j > nv THEN <<"\n">>
    ELSE Cell(dat[j], fl, i) \o <<",">>
         \o RowFrom_TrailingComma(dat, fl, nv, i, j + 1)

RECURSIVE RowFrom(_, _, _, _, _)
\* the loop over 0..plot.no_of_variables of one data row
RowFrom(dat, fl, nv, i, j) ==
    IF j > nv THEN <<>>
    ELSE Cell(dat[j], fl, i) \o <<IF j # nv THEN "," ELSE "\n">>
         \o RowFrom(dat, fl, nv, i, j + 1)

RECURSIVE RowsFrom(_, _, _, _, _)
RowsFrom(dat, fl, nv, np, i) ==
    IF i > np THEN <<>>
    ELSE RowFrom(dat, fl, nv, i, 1) \o RowsFrom(dat, fl, nv, np, i + 1)

\* the export of a returned Plot
ToCsv(dat, fl, nv, np) ==
    LET header == HeaderFrom(dat, fl, 1)
    IN  IF header = <<>> THEN [status |-> "Panic", text |-> <<>>]
        ELSE IF RowFaults(dat, fl, nv, np)
             THEN [status |-> "Panic", text |-> RemoveLast(header) \o <<"\n">>]
             ELSE [status |-> "Ok",
                   text |-> RemoveLast(header) \o <<"\n">> \o RowsFrom(dat, fl, nv, np, 1)]

parse_and_get_csv ==
    IF result = "Ok" THEN ToCsv(data, flags, no_of_variables, no_of_points)
    ELSE [status |-> result, text |-> <<>>]

----------------------------------------------------------------------------
(* Input lines *)

Lines == {
    <<" ">>,
    <<"Title", ":", " ", "t">>,
    <<"Title", ":", " ", "a", ":", "b">>,
    <<"Date", ":", " ", "d", " ", "1", ":", "2">>,
    <<"Plotname", ":", " ", "p">>,
    <<"Flags", ":", " ", "real">>,
    <<"Flags", ":", " ", "complex">>,
    <<"Flags", ":", " ", "Real">>,
    <<"Flags", ":", " ", "real", ":", "x">>,
    <<"Flags">>,
    <<"No. Variables", ":", " ", "0">>,
    <<"No. Variables", ":", " ", "1">>,
    <<"No. Variables", ":", " ", "2">>,
    <<"No. Variables", ":", " ", "x">>,
    <<"No. Points", ":", " ", "1">>,
    <<"No. Points", ":", " ", "2">>,
    <<"Variables", ":">>,
    <<"Values", ":">>,
    <<"Command", ":", " ", "v">>,
    <<"\t", "0", "\t", "time", "\t", "time">>,
    <<"\t", "1", "\t", "v1", "\t", "voltage">>,
    <<"\t", "2", "\t", "v2", "\t", "voltage">>,
    <<"\t", "3", "\t", "v3">>,
    <<"0", "\t", "1.0">>,
    <<"\t", "2.0">>,
    <<"0", "\t", "3", ",", "4">>,
    <<"\t", "0", ",", "2">>,
    <<"\t", "x">> }

----------------------------------------------------------------------------
(* Specification: the lines of the input are arbitrary *)

Init == InitParse /\ file = <<>>

\* one iteration of the loop, the text not being given in advance
ReadAny ==
    /\ result = "Running"
    /\ file = <<>>
    /\ nread < MaxLines
    /\ \E l \in Lines : ParseLine(l)
    /\ nread' = nread + 1
    /\ UNCHANGED <<file, csv>>

\* one iteration of the loop on the next line of the given text
ReadNext ==
    /\ result = "Running"
    /\ nread < Len(file)
    /\ ParseLine(file[nread + 1])
    /\ nread' = nread + 1
    /\ UNCHANGED <<file, csv>>

EndOfInput ==
    /\ result = "Running"
    /\ nread >= Len(file)
    /\ Finish
    /\ UNCHANGED <<nread, file, csv>>

ExportCsv ==
    /\ result # "Running"
    /\ csv.status = "None"
    /\ csv' = parse_and_get_csv
    /\ UNCHANGED <<meta, pstate, lin, nread, file, result>>

Next == ReadAny \/ EndOfInput \/ ExportCsv

Spec == Init /\ [][Next]_vars

----------------------------------------------------------------------------
(* Specification: the input is a well-formed raw file with V variables and *)
(* P points: the six header lines, the Variables section with V lines, the *)
(* Values section with P blocks of one index line and V - 1 continuation   *)
(* lines.                                                                  *)

VarNames == <<"time", "v1", "v2", "v3">>
VarKinds == <<"time", "voltage", "voltage", "current">>

FlagText(fl) == IF fl = "Real" THEN "real" ELSE "complex"

\* texts of one sample
SampleTexts(fl) ==
    IF fl = "Real" THEN {<<"1.0">>, <<"2">>}
    ELSE {<<"3", ",", "4">>, <<"0", ",", "2">>}

HeaderLines(fl, V, P) ==
    << <<"Title", ":", " ", "t">>,
       <<"Date", ":", " ", "d">>,
       <<"Plotname", ":", " ", "p">>,
       <<"Flags", ":", " ", FlagText(fl)>>,
       <<"No. Variables", ":", " ", ToString(V)>>,
       <<"No. Points", ":", " ", ToString(P)>> >>

VariableLines(V) ==
    [i \in 1..V |-> <<"\t", ToString(i - 1), "\t", VarNames[i], "\t", VarKinds[i]>>]

\* line k (1..P*V) of the Values section: sample i of point p
ValueLines(V, P, S) ==
    [k \in 1..(P * V) |->
        LET p == ((k - 1) \div V) + 1
            i == ((k - 1) % V) + 1
        IN  IF i = 1 THEN <<ToString(p - 1), "\t">> \o S[p][i]
            ELSE <<"\t">> \o S[p][i]]

WellFormed(fl, V, P, S) ==
    HeaderLines(fl, V, P) \o << <<"Variables", ":">> >> \o VariableLines(V)
    \o << <<"Values", ":">> >> \o ValueLines(V, P, S)

SampleMatrices(fl, V, P) == [1..P -> [1..V -> SampleTexts(fl)]]

InitWF ==
    /\ InitParse
    /\ \E fl \in {"Real", "Complex"} : \E V \in 1..MaxV : \E P \in 0..MaxP :
         \E S \in SampleMatrices(fl, V, P) : file = WellFormed(fl, V, P, S)

NextWF == ReadNext \/ EndOfInput \/ ExportCsv

SpecWF == InitWF /\ [][NextWF]_vars

----------------------------------------------------------------------------
(* Properties *)

Returned == result = "Ok"

\* C1: a returned Plot has as many series as No. Variables declares
C1_SeriesCountIsDeclared == Returned => Len(data) = no_of_variables

\* C2: every series of a returned Plot holds exactly No. Points values
C2_ValuesLenIsDeclared ==
    Returned => \A i \in 1..Len(data) : Len(data[i].values) = no_of_points

\* C3: in a returned Plot, Real means no series has angles and Complex means
\* every series has angles as long as its values
C3_FlagShape ==
    Returned =>
        /\ flags = "Real" => \A i \in 1..Len(data) : ~data[i].angles.some
        /\ flags = "Complex" =>
              \A i \in 1..Len(data) :
                  /\ data[i].angles.some
                  /\ Len(data[i].angles.vec) = Len(data[i].values)

\* a line of three or more tab-separated fields, as in the Variables section
IsVariableLine(l) == Len(Trim(l)) # 0 /\ Len(Split(Trim(l), "\t")) >= 3

\* the step reads one more line
ReadsLine == result = "Running" /\ nread' = nread + 1

\* the step is the end of the input
EndsInput == result = "Running" /\ nread' = nread /\ result' # "Running"

\* C4: when the Variables section has supplied the declared number of variable
\* lines, one more variable line makes parse fail with NoOfVarMismatch
C4_ExtraVariableLineFails ==
    [][ ( /\ ReadsLine
          /\ mode = "Meta"
          /\ variable_counter > 0
          /\ variable_counter = no_of_variables
          /\ Len(data) = no_of_variables
          /\ IsVariableLine(lin)
          /\ IsVariableLine(lin') )
        => result' = "NoOfVarMismatch" ]_vars

\* the step reads a two-field line in Value mode, which flushes
ReadsIndexLine ==
    /\ ReadsLine
    /\ mode = "Value"
    /\ Len(Trim(lin')) # 0
    /\ Len(Split(Trim(lin'), "\t")) = 2

\* C5: a flush (at a two-field value line or at the end of the input) with a
\* non-empty buffer whose length differs from no_of_variables fails with
\* NoOfValMismatch and leaves every series as it was
C5_FlushMismatchFails ==
    [][ ( /\ ReadsIndexLine \/ EndsInput
          /\ temp_values # <<>>
          /\ Len(temp_values) # no_of_variables )
        => (result' = "NoOfValMismatch" /\ data' = data) ]_vars

\* three samples were buffered for a point of two declared variables, and the
\* flush has failed
C5_Witness ==
    /\ result = "NoOfValMismatch"
    /\ Len(temp_values) = 3
    /\ no_of_variables = 2

\* the text after the first colon of a line, trimmed
Remainder(l) ==
    LET t == Trim(l)
        k == Len(Split(t, ":")[1])
    IN  Trim(SubSeq(t, k + 2, Len(t)))

\* a line "Flags:<value>" whose value is neither "real" nor "complex"
IsBadFlagsLine(l) ==
    LET parts == Split(Trim(l), ":")
    IN  /\ parts[1] = <<"Flags">>
        /\ Len(parts) >= 2
        /\ Remainder(l) \notin {<<"complex">>, <<"real">>}

\* C6: a Flags line read in Meta mode whose trimmed value is neither "complex"
\* nor "real" makes parse fail with UnknownFlag
C6_UnknownFlagFails ==
    [][ (ReadsLine /\ mode = "Meta" /\ IsBadFlagsLine(lin'))
        => result' = "UnknownFlag" ]_vars

\* C7: on a well-formed input with V variables and P points parse returns a
\* Plot in which value p of series i is sample i of point block p
C7_SamplesInOrder ==
    result # "Running" =>
        \A fl \in {"Real", "Complex"} : \A V \in 1..MaxV : \A P \in 0..MaxP :
            \A S \in SampleMatrices(fl, V, P) :
                file = WellFormed(fl, V, P, S) =>
                    /\ result = "Ok"
                    /\ Len(data) = V
                    /\ \A i \in 1..V :
                          /\ Len(data[i].values) = P
                          /\ \A p \in 1..P :
                                data[i].values[p] = ParseSample(fl, S[p][i]).val[1]

\* two points of two variables whose samples differ were stored
C7_Witness ==
    /\ result = "Ok"
    /\ Len(file) > 0
    /\ Len(data) = 2
    /\ Len(data[1].values) = 2
    /\ Len(data[2].values) = 2
    /\ data[1].values[1] # data[2].values[1]
    /\ data[1].values[1] # data[1].values[2]

\* C8: the export of a Plot with no variables returns CSV text
C8_EmptyExportReturns ==
    (csv.status # "None" /\ Returned /\ no_of_variables = 0 /\ data = <<>>)
        => csv.status = "Ok"

\* C9: parse ends with a Plot or with one of the five error kinds
C9_ParseNeverFaults == result \in {"Running", "Ok"} \cup Errors

\* C10: the export fails exactly when parse fails, with the same error kind,
\* and returns CSV text whenever parse returns a Plot
C10_ExportMirrorsParse ==
    csv.status # "None" =>
        /\ Returned => csv.status = "Ok"
        /\ result \in Errors => csv.status = result
        /\ csv.status \in Errors => csv.status = result

\* the rows of the exported text: the text is cut at every newline, the last
\* piece being what follows the final newline
CsvRows == Split(csv.text, "\n")

\* the comma-separated columns of row r of the exported text
CsvFields(r) == Split(CsvRows[r], ",")

\* the column group of series j in data row p is its sample at point p
GroupIsSample(p, j) ==
    IF flags = "Real"
    THEN CsvFields(p + 1)[j] = <<FloatToString(data[j].values[p])>>
    ELSE /\ CsvFields(p + 1)[2 * j - 1] = <<FloatToString(data[j].values[p])>>
         /\ CsvFields(p + 1)[2 * j] = <<DegreesToString(data[j].angles.vec[p]), "Â°">>

\* the returned Plot is a Document of the data model: it has the declared
\* number of series, each with the declared number of values, and angles
\* exactly when it is Complex
IsDocument ==
    /\ Returned
    /\ Len(data) = no_of_variables
    /\ \A i \in 1..Len(data) :
          /\ Len(data[i].values) = no_of_points
          /\ data[i].angles.some = (flags = "Complex")
          /\ data[i].angles.some => Len(data[i].angles.vec) = no_of_points

\* C11: the CSV of a Document with at least one variable is one header row and
\* no_of_points data rows; data row p has one column group per series, in
\* order, holding that series' sample at point p (magnitude then phase for
\* Complex), with commas between the groups and a newline, not a comma, at
\* the end of the row
C11_RowsHoldSamples ==
    (csv.status # "None" /\ IsDocument /\ Len(data) >= 1) =>
        /\ csv.status = "Ok"
        /\ Len(CsvRows) = no_of_points + 2
        /\ CsvRows[Len(CsvRows)] = <<>>
        /\ \A p \in 1..no_of_points :
              /\ Len(CsvFields(p + 1)) =
                    (IF flags = "Real" THEN 1 ELSE 2) * Len(data)
              /\ \A j \in 1..Len(data) : GroupIsSample(p, j)

\* a Complex Plot of two variables and two points was exported
C11_Witness ==
    /\ csv.status = "Ok"
    /\ flags = "Complex"
    /\ Len(data) = 2
    /\ no_of_points = 2
    /\ Len(CsvRows) = 4

\* the step flushes a point that has fewer samples than no_of_variables
FlushesShortPoint ==
    /\ ReadsIndexLine \/ EndsInput
    /\ temp_values # <<>>
    /\ Len(temp_values) < no_of_variables

\* C12: a point flushed with fewer samples than no_of_variables makes parse
\* fail with NoOfVarMismatch
C12_ShortPointIsVarMismatch ==
    [][ FlushesShortPoint => result' = "NoOfVarMismatch" ]_vars

\* C12, amended: a point flushed with fewer samples than no_of_variables makes
\* parse fail with NoOfValMismatch
C12_ShortPointIsValMismatch ==
    [][ FlushesShortPoint => result' = "NoOfValMismatch" ]_vars

\* one sample was buffered for a point of two declared variables, and the
\* flush has failed
C12_Witness ==
    /\ result = "NoOfValMismatch"
    /\ Len(temp_values) = 1
    /\ no_of_variables = 2

\* the "Variables" header line, as the Meta arm recognises it
IsVariablesHeader(l) ==
    Len(Trim(l)) # 0 /\ Split(Trim(l), ":")[1] = <<"Variables">>

\* C13: reading a Variables header in Meta mode enters Variable mode with
\* variable_counter reset to 0
C13_HeaderResetsCounter ==
    [][ (ReadsLine /\ mode = "Meta" /\ IsVariablesHeader(lin'))
        => (mode' = "Variable" /\ variable_counter' = 0) ]_vars

\* C13, amended: reading a Variables header in Meta mode enters Variable mode
\* and leaves variable_counter as it was
C13_HeaderKeepsCounter ==
    [][ (ReadsLine /\ mode = "Meta" /\ IsVariablesHeader(lin'))
        => (mode' = "Variable" /\ variable_counter' = variable_counter) ]_vars

\* a second Variables header was read after a complete Variables section
C13_Witness ==
    /\ result = "Running"
    /\ mode = "Variable"
    /\ IsVariablesHeader(lin)
    /\ variable_counter > 0
    /\ variable_counter = no_of_variables

\* the "Values" header line, as the Meta arm recognises it
IsValuesHeader(l) ==
    Len(Trim(l)) # 0 /\ Split(Trim(l), ":")[1] = <<"Values">>

\* the step reads a variable line in Variable mode while the counter is below
\* no_of_variables
ReadsCountedVariableLine ==
    /\ ReadsLine
    /\ mode = "Variable"
    /\ IsVariableLine(lin')
    /\ variable_counter < no_of_variables

\* C14: a variable line read in Variable mode is counted and its series
\* appended; the parser returns to Meta mode when the counter reaches
\* no_of_variables and stays in Variable mode while it is below; in Meta mode
\* a Values header then moves the parser to Value mode
C14_LastVariableLineReturnsToMeta ==
    [][ /\ ReadsCountedVariableLine =>
            /\ result' = "Running"
            /\ variable_counter' = variable_counter + 1
            /\ Len(data') = Len(data) + 1
            /\ data'[Len(data')].name = Trim(Split(Trim(lin'), "\t")[2])
            /\ variable_counter' = no_of_variables => mode' = "Meta"
            /\ variable_counter' < no_of_variables => mode' = "Variable"
        /\ (ReadsLine /\ mode = "Meta" /\ IsValuesHeader(lin')) => mode' = "Value"
      ]_vars

\* a Variables section of two lines was read and the Values header after it
\* was recognised
C14_Witness ==
    /\ result = "Running"
    /\ mode = "Value"
    /\ IsValuesHeader(lin)
    /\ no_of_variables = 2
    /\ variable_counter = 2
    /\ Len(data) = 2

\* C15: a non-blank line read in Variable mode when the counter already equals
\* no_of_variables makes parse fail with NoOfVarMismatch, no series appended
C15_FullCounterFails ==
    [][ ( /\ ReadsLine
          /\ mode = "Variable"
          /\ Len(Trim(lin')) # 0
          /\ variable_counter = no_of_variables )
        => (result' = "NoOfVarMismatch" /\ data' = data) ]_vars

\* "No. Variables: 0", a Variables header and one more line were read
C15_Witness ==
    /\ result = "NoOfVarMismatch"
    /\ mode = "Variable"
    /\ no_of_variables = 0
    /\ variable_counter = 0
    /\ data = <<>>
    /\ Len(Trim(lin)) # 0

\* the step reads a non-blank line in Value mode that is not an index line
ReadsContinuationLine ==
    /\ ReadsLine
    /\ mode = "Value"
    /\ Len(Trim(lin')) # 0
    /\ Len(Split(Trim(lin'), "\t")) # 2

\* the step appends sample i of the buffered point to series i, once, and
\* changes no other series
CommitsPoint ==
    /\ Len(data') = Len(data)
    /\ \A i \in 1..Len(data) :
          IF i <= Len(temp_values)
          THEN data'[i].values = Append(data[i].values, temp_values[i][1])
          ELSE data'[i] = data[i]

\* C16: in Value mode a sample goes to the per-point buffer only; the buffered
\* point is committed to the series, once, at the next index line (before
\* that line's sample is buffered) or at the end of the input, and the
\* buffer is empty when a Plot is returned
C16_PointCommittedOnceAtBoundary ==
    [][ /\ (ReadsContinuationLine /\ result' = "Running") =>
              /\ data' = data
              /\ Len(temp_values') = Len(temp_values) + 1
              /\ SubSeq(temp_values', 1, Len(temp_values)) = temp_values
        /\ (ReadsIndexLine /\ result' = "Running") =>
              /\ Len(temp_values') = 1
              /\ CommitsPoint
        /\ (EndsInput /\ result' = "Ok") =>
              /\ temp_values' = <<>>
              /\ CommitsPoint
      ]_vars

\* two points of one variable were committed, the first at the index line of
\* the second and the second at the end of the input
C16_Witness ==
    /\ result = "Ok"
    /\ mode = "Value"
    /\ temp_values = <<>>
    /\ Len(data) = 1
    /\ Len(data[1].values) = 2

\* a line "<k>:<remainder>"
IsKeyLine(l, k) ==
    /\ Len(Trim(l)) # 0
    /\ Split(Trim(l), ":")[1] = <<k>>
    /\ Len(Split(Trim(l), ":")) >= 2

\* C17: a Meta line is split at its first colon only: the whole trimmed
\* remainder of a Title line becomes the title, and the whole trimmed remainder
\* of a "No. Variables" / "No. Points" line is what is parsed as an integer
C17_SplitAtFirstColon ==
    [][ (ReadsLine /\ mode = "Meta") =>
          /\ IsKeyLine(lin', "Title") => title' = Remainder(lin')
          /\ IsKeyLine(lin', "No. Variables") =>
                IF ParseUsize(Remainder(lin')).ok
                THEN no_of_variables' = ParseUsize(Remainder(lin')).val
                ELSE result' = "ParseInt"
          /\ IsKeyLine(lin', "No. Points") =>
                IF ParseUsize(Remainder(lin')).ok
                THEN no_of_points' = ParseUsize(Remainder(lin')).val
                ELSE result' = "ParseInt"
      ]_vars

\* C18: a blank line (empty after trimming) is skipped in every mode: reading
\* it changes neither the outcome nor mode, counter, buffer, series or header
\* fields, so that blank lines inserted anywhere leave the parse as it is
C18_BlankLineIsSkipped ==
    [][ (ReadsLine /\ Len(Trim(lin')) = 0)
        => (result' = result /\ UNCHANGED <<meta, pstate>>) ]_vars

\* a blank line was read inside the Variables section
C18_Witness ==
    /\ result = "Running"
    /\ nread > 0
    /\ Len(Trim(lin)) = 0
    /\ mode = "Variable"
    /\ variable_counter < no_of_variables

HeaderKeys ==
    {<<"Title">>, <<"Date">>, <<"Plotname">>, <<"Flags">>, <<"No. Variables">>,
     <<"No. Points">>, <<"Variables">>, <<"Values">>}

\* a header line "<key>" or "<key>:<value>" without a tab in it
IsPlainHeaderLine(l) ==
    /\ Len(Trim(l)) # 0
    /\ Split(Trim(l), ":")[1] \in HeaderKeys
    /\ Len(Split(Trim(l), "\t")) = 1

\* the text of the line that the Value arm parses as the sample
SampleField(l) ==
    LET parts == Split(Trim(l), "\t")
    IN  IF Len(parts) = 2 THEN parts[2] ELSE parts[1]

\* C19: Value mode is never left, and in it no step changes the header fields,
\* the number of series or a series' name and kind; a non-blank line that is
\* accepted there has been buffered as a sample, and a Variables or other
\* header line read there fails with ParseFloat
C19_ValueModeIsAbsorbing ==
    [][ mode = "Value" =>
          /\ mode' = "Value"
          /\ UNCHANGED meta
          /\ Len(data') = Len(data)
          /\ \A i \in 1..Len(data) :
                data'[i].name = data[i].name /\ data'[i].typee = data[i].typee
          /\ (ReadsLine /\ Len(Trim(lin')) # 0 /\ result' = "Running") =>
                /\ Len(temp_values') >= 1
                /\ temp_values'[Len(temp_values')] =
                      ParseSample(flags, SampleField(lin')).val
          /\ (ReadsLine /\ IsPlainHeaderLine(lin')) => result' = "ParseFloat"
      ]_vars

\* a Variables header was read in Value mode and rejected as a number
C19_Witness ==
    /\ result = "ParseFloat"
    /\ mode = "Value"
    /\ IsVariablesHeader(lin)
    /\ Len(data) >= 1

\* C20: in the CSV of a returned Plot every data row has as many
\* comma-separated columns as the header row: one per series for Real, two
\* per series for Complex
C20_RowsMatchHeader ==
    (Returned /\ csv.status = "Ok") =>
        /\ Len(CsvFields(1)) = (IF flags = "Real" THEN 1 ELSE 2) * Len(data)
        /\ \A r \in 2..(Len(CsvRows) - 1) : Len(CsvFields(r)) = Len(CsvFields(1))
====
